---------------------------- MODULE Spec2Model ----------------------------
(***************************************************************************)
(* A model of the TwinCAT library reference (tclibraryreference.py) and of *)
(* the TwinCAT library bound to a path (tclibrary.py).                     *)
(*                                                                         *)
(* Text is a sequence of one-character strings.  A version is a record:    *)
(* [any |-> TRUE, release |-> <<>>] is the Python string "*", and          *)
(* [any |-> FALSE, release |-> <<1, 0>>] is packaging's Version("1.0").    *)
(* A raised exception is a value whose outcome names the exception class.  *)
(***************************************************************************)
EXTENDS Integers, Sequences, FiniteSets, TLC

VARIABLES
    a, b, cmp,              \* two references and the result of comparing them
    references, latest,     \* the argument and the result of select_latest
    full_name, parsed,      \* the argument and the result of parse_string
    ref, round,             \* a reference and the result of from_string(str(ref))
    files, order,           \* the file system: each path's content, glob's order
    registry, held, last    \* UniquePath's registry, how many instances callers
                            \* hold of each path, the last call with its result

vars == <<a, b, cmp, references, latest, full_name, parsed, ref, round,
          files, order, registry, held, last>>

-----------------------------------------------------------------------------
(* Text *)

UpperLetters == <<"A", "B", "C", "D", "E", "F", "G", "H", "I", "J", "K", "L", "M",
                  "N", "O", "P", "Q", "R", "S", "T", "U", "V", "W", "X", "Y", "Z">>

LowerLetters == <<"a", "b", "c", "d", "e", "f", "g", "h", "i", "j", "k", "l", "m",
                  "n", "o", "p", "q", "r", "s", "t", "u", "v", "w", "x", "y", "z">>

Digits == <<"0", "1", "2", "3", "4", "5", "6", "7", "8", "9">>

\* str.lower() of one character
LowerChar(c) ==
    IF \E i \in 1..Len(UpperLetters) : UpperLetters[i] = c
    THEN LowerLetters[CHOOSE i \in 1..Len(UpperLetters) : UpperLetters[i] = c]
    ELSE c

\* str.lower()
Lower(s) == [i \in 1..Len(s) |-> LowerChar(s[i])]

\* s[i..j], empty when j < i
Slice(s, i, j) == IF j < i THEN <<>> ELSE SubSeq(s, i, j)

\* whether text t occurs in s at position i
OccursAt(s, t, i) ==
    /\ i >= 1
    /\ i + Len(t) - 1 <= Len(s)
    /\ \A k \in 1..Len(t) : s[i + k - 1] = t[k]

-----------------------------------------------------------------------------
(* Versions *)

AnyVersion == [any |-> TRUE, release |-> <<>>]

NumVersion(rel) == [any |-> FALSE, release |-> rel]

RECURSIVE StripZeros(_)
\* packaging's _cmpkey: the release without its trailing zeros
StripZeros(rel) ==
    IF Len(rel) > 0 /\ rel[Len(rel)] = 0
    THEN StripZeros(SubSeq(rel, 1, Len(rel) - 1))
    ELSE rel

RECURSIVE TupleLt(_, _)
\* Python's tuple order: the first differing item decides, a proper prefix is less
TupleLt(x, y) ==
    IF Len(y) = 0 THEN FALSE
    ELSE IF Len(x) = 0 THEN TRUE
    ELSE IF x[1] # y[1] THEN x[1] < y[1]
    ELSE TupleLt(Tail(x), Tail(y))

\* v == w in Python: "True" or "False" (Version.__eq__ gives NotImplemented for a
\* str, str.__eq__ gives it for a Version, and == then falls back to identity)
PyVersionEq(v, w) ==
    IF v.any /\ w.any THEN "True"
    ELSE IF v.any \/ w.any THEN "False"
    ELSE IF StripZeros(v.release) = StripZeros(w.release) THEN "True" ELSE "False"

\* v < w in Python: "True", "False", or "TypeError" when one side is the str "*"
\* and the other a Version (both sides answer NotImplemented)
PyVersionLt(v, w) ==
    IF v.any /\ w.any THEN "False"
    ELSE IF v.any \/ w.any THEN "TypeError"
    ELSE IF TupleLt(StripZeros(v.release), StripZeros(w.release)) THEN "True" ELSE "False"

\* v > w in Python
PyVersionGt(v, w) == PyVersionLt(w, v)

-----------------------------------------------------------------------------
(* TcLibraryReference *)

TcLibraryReference(title, version, company) ==
    [title |-> title, version |-> version, company |-> company]

is_any_version(self) == self.version.any

Eq_NoWildcardOnRight(self, other) ==
    IF /\ (PyVersionEq(self.version, other.version) = "True" \/ is_any_version(self))
       /\ Lower(self.title) = Lower(other.title)
       /\ Lower(self.company) = Lower(other.company)
    THEN "True" ELSE "False"

\* __eq__ of two references
Eq(self, other) ==
    IF /\ \/ PyVersionEq(self.version, other.version) = "True"
          \/ is_any_version(self)
          \/ is_any_version(other)
       /\ Lower(self.title) = Lower(other.title)
       /\ Lower(self.company) = Lower(other.company)
    THEN "True" ELSE "False"

\* __gt__: the version test is evaluated first, and its TypeError propagates
Gt(self, other) ==
    LET versions == IF is_any_version(self) THEN "True"
                    ELSE PyVersionGt(self.version, other.version)
    IN  IF versions = "TypeError" THEN "TypeError"
        ELSE IF /\ versions = "True"
                /\ Lower(self.title) = Lower(other.title)
                /\ Lower(self.company) = Lower(other.company)
        THEN "True" ELSE "False"

-----------------------------------------------------------------------------
(* The references the comparisons and select_latest are checked on *)

Titles == {<<"T", "c">>, <<"t", "c">>, <<"T", "C">>, <<"T", "x">>}

Companies == {<<"B">>, <<"b">>, <<"X">>}

Releases == {<<1>>, <<1, 0>>, <<1, 2>>, <<2>>, <<0, 12>>}

Versions == {AnyVersion} \cup {NumVersion(r) : r \in Releases}

Refs == {TcLibraryReference(t, v, c) : t \in Titles, v \in Versions, c \in Companies}

DefaultRef == TcLibraryReference(<<>>, AnyVersion, <<>>)

NoCmp == [op |-> "none", val |-> "none"]

-----------------------------------------------------------------------------
(* select_latest *)

RECURSIVE InsertIndex(_, _, _)
\* One step of a stable sort that, like list.sort, only asks key[x] < key[y]:
\* index i goes after the last index whose key is not greater.  A comparison that
\* raises ends the sort.
InsertIndex(sorted, i, keys) ==
    IF Len(sorted) = 0 THEN [err |-> FALSE, idx |-> <<i>>]
    ELSE LET e == sorted[Len(sorted)]
             lt == PyVersionLt(keys[i], keys[e])
         IN  IF lt = "TypeError" THEN [err |-> TRUE, idx |-> <<>>]
             ELSE IF lt = "False" THEN [err |-> FALSE, idx |-> Append(sorted, i)]
             ELSE LET r == InsertIndex(SubSeq(sorted, 1, Len(sorted) - 1), i, keys)
                  IN  IF r.err THEN r
                      ELSE [err |-> FALSE, idx |-> Append(r.idx, e)]

RECURSIVE SortedIndices(_, _)
\* sorted(references, key=lambda x: x.version), as the indices of the first n items
SortedIndices(keys, n) ==
    IF n = 0 THEN [err |-> FALSE, idx |-> <<>>]
    ELSE LET r == SortedIndices(keys, n - 1)
         IN  IF r.err THEN r ELSE InsertIndex(r.idx, n, keys)

NoLatest == [outcome |-> "none", index |-> 0, value |-> DefaultRef]

Result(outcome, index, value) == [outcome |-> outcome, index |-> index, value |-> value]

Mismatched_IgnoringCase(refs) ==
    \E i \in 1..Len(refs) :
        \/ Lower(refs[i].title) # Lower(refs[1].title)
        \/ Lower(refs[i].company) # Lower(refs[1].company)

\* the test of lines 65-73: some item differs from the first in title or company
Mismatched(refs) ==
    \E i \in 1..Len(refs) :
        refs[i].title # refs[1].title \/ refs[i].company # refs[1].company

SelectLatest(refs) ==
    IF Len(refs) = 0 THEN Result("None", 0, DefaultRef)
    ELSE IF Len(refs) = 1 THEN Result("ok", 1, refs[1])
    ELSE IF Mismatched(refs) THEN Result("TcLibraryException", 0, DefaultRef)
    ELSE LET keys == [i \in 1..Len(refs) |-> refs[i].version]
             r == SortedIndices(keys, Len(refs))
         IN  IF r.err THEN Result("TypeError", 0, DefaultRef)
             ELSE Result("ok", r.idx[Len(refs)], refs[r.idx[Len(refs)]])

MaxRefs == 3

SelectTitles == {<<"T", "c">>, <<"t", "c">>}

SelectCompanies == {<<"B">>, <<"X">>}

SelectRefs ==
    {TcLibraryReference(t, v, c) : t \in SelectTitles, v \in Versions, c \in SelectCompanies}

ListsOf(S, n) == UNION {[1..k -> S] : k \in 0..n}

-----------------------------------------------------------------------------
(* packaging.version: parse and str, for release-only versions *)

DigitValue(c) == (CHOOSE i \in 1..Len(Digits) : Digits[i] = c) - 1

IsDigit(c) == \E i \in 1..Len(Digits) : Digits[i] = c

RECURSIVE ParseInt(_)
\* int() of a non-empty run of digits
ParseInt(s) ==
    IF Len(s) = 0 THEN 0
    ELSE 10 * ParseInt(SubSeq(s, 1, Len(s) - 1)) + DigitValue(s[Len(s)])

RECURSIVE IntToStr(_)
\* str() of a natural number
IntToStr(n) ==
    IF n < 10 THEN <<Digits[n + 1]>>
    ELSE Append(IntToStr(n \div 10), Digits[(n % 10) + 1])

RECURSIVE StripSpaces(_)
\* the white space packaging's pattern allows at both ends
StripSpaces(s) ==
    IF Len(s) > 0 /\ s[1] = " " THEN StripSpaces(Tail(s))
    ELSE IF Len(s) > 0 /\ s[Len(s)] = " " THEN StripSpaces(SubSeq(s, 1, Len(s) - 1))
    ELSE s

\* the length of the run of digits at the start of s
DigitRun(s) ==
    IF \E k \in 1..Len(s) : ~IsDigit(s[k])
    THEN (CHOOSE k \in 1..Len(s) : ~IsDigit(s[k]) /\ \A j \in 1..(k - 1) : IsDigit(s[j])) - 1
    ELSE Len(s)

RECURSIVE ParseRelease(_)
\* dotted runs of digits read to the end of s: the numbers, or <<-1>> when s is
\* not of that form
ParseRelease(s) ==
    LET n == DigitRun(s)
    IN  IF n = 0 THEN <<-1>>
        ELSE IF n = Len(s) THEN <<ParseInt(s)>>
        ELSE IF s[n + 1] # "." THEN <<-1>>
        ELSE LET rest == ParseRelease(SubSeq(s, n + 2, Len(s)))
             IN  IF rest = <<-1>> THEN rest
                 ELSE <<ParseInt(SubSeq(s, 1, n))>> \o rest

\* version_module.parse(text), on text whose letters spell none of PEP 440's
\* words (a, b, c, rc, alpha, beta, pre, preview, post, rev, r, dev, v) and that
\* holds none of - _ + !  : such text is a version exactly when, stripped of
\* surrounding white space, it is dotted numbers.  InvalidVersion is ok = FALSE.
ParseVersion(text) ==
    LET rel == ParseRelease(StripSpaces(text))
    IN  IF rel = <<-1>> THEN [ok |-> FALSE, version |-> AnyVersion]
        ELSE [ok |-> TRUE, version |-> NumVersion(rel)]

RECURSIVE JoinRelease(_)
\* ".".join(str(x) for x in release)
JoinRelease(rel) ==
    IF Len(rel) = 0 THEN <<>>
    ELSE IF Len(rel) = 1 THEN IntToStr(rel[1])
    ELSE IntToStr(rel[1]) \o <<".">> \o JoinRelease(Tail(rel))

\* str(self.version): the str "*" itself, or str() of the Version
VersionStr(v) == IF v.any THEN <<"*">> ELSE JoinRelease(v.release)

-----------------------------------------------------------------------------
(* _RE_LIBRARY_REF and parse_string.  The pattern is: start of text, a     *)
(* greedy group of any characters but line breaks, ", ", a second such     *)
(* group, " (", a third such group, ")".                                   *)

\* how far a greedy group starting at position start first reaches: up to the next
\* line break ("." matches no "\n") or the end of the text
DotStarMax(s, start) ==
    IF \E k \in start..Len(s) : s[k] = "\n"
    THEN (CHOOSE k \in start..Len(s) : s[k] = "\n" /\ \A j \in start..(k - 1) : s[j] # "\n") - 1
    ELSE Len(s)

NoMatch == [ok |-> FALSE, e1 |-> 0, e2 |-> 0, e3 |-> 0]

RECURSIVE MatchGroup3(_, _, _)
\* group 3 starts at start and ends at e or, backtracking, before: the first end
\* that is followed by ")", or -1
MatchGroup3(s, start, e) ==
    IF e < start - 1 THEN -1
    ELSE IF OccursAt(s, <<")">>, e + 1) THEN e
    ELSE MatchGroup3(s, start, e - 1)

RECURSIVE MatchGroup2(_, _, _)
\* group 2 likewise, followed by " (" and a match of the rest
MatchGroup2(s, start, e) ==
    IF e < start - 1 THEN [ok |-> FALSE, e2 |-> 0, e3 |-> 0]
    ELSE LET e3 == IF OccursAt(s, <<" ", "(">>, e + 1)
                   THEN MatchGroup3(s, e + 3, DotStarMax(s, e + 3))
                   ELSE -1
         IN  IF e3 # -1 THEN [ok |-> TRUE, e2 |-> e, e3 |-> e3]
             ELSE MatchGroup2(s, start, e - 1)

RECURSIVE MatchGroup1(_, _)
\* group 1 starts at 1 (^, re.match), followed by ", " and a match of the rest
MatchGroup1(s, e) ==
    IF e < 0 THEN NoMatch
    ELSE LET r == IF OccursAt(s, <<",", " ">>, e + 1)
                  THEN MatchGroup2(s, e + 3, DotStarMax(s, e + 3))
                  ELSE [ok |-> FALSE, e2 |-> 0, e3 |-> 0]
         IN  IF r.ok THEN [ok |-> TRUE, e1 |-> e, e2 |-> r.e2, e3 |-> r.e3]
             ELSE MatchGroup1(s, e - 1)

\* _RE_LIBRARY_REF.match(full_name): the ends of the three groups
ReMatch(s) == MatchGroup1(s, DotStarMax(s, 1))

Parsed(outcome, title, version, company) ==
    [outcome |-> outcome, title |-> title, version |-> version, company |-> company]

ParseFailure == Parsed("TcLibraryException", <<>>, AnyVersion, <<>>)

NotParsed == Parsed("none", <<>>, AnyVersion, <<>>)

\* line 40: the version kept as "*" or parsed; v is version_module.parse(version)
ParseFields_StarNotSpecial(title, version, v, company) ==
    IF ~v.ok THEN ParseFailure ELSE Parsed("ok", title, v.version, company)

ParseFields(title, version, v, company) ==
    IF version = <<"*">> THEN Parsed("ok", title, AnyVersion, company)
    ELSE IF ~v.ok THEN ParseFailure
    ELSE Parsed("ok", title, v.version, company)

\* lines 35-42, for the match m of the pattern
ParseGroups(s, m) ==
    IF ~m.ok THEN ParseFailure
    ELSE ParseFields(Slice(s, 1, m.e1), Slice(s, m.e1 + 3, m.e2),
                     ParseVersion(Slice(s, m.e1 + 3, m.e2)), Slice(s, m.e2 + 3, m.e3))

\* parse_string: every exception (no match: res is None; InvalidVersion) becomes
\* TcLibraryException
ParseString(s) == ParseGroups(s, ReMatch(s))

\* from_string: the reference of the parsed fields; parse_string's exception
\* propagates
FromString(s) == ParseString(s)

Str_NoSpaceAfterComma(self) ==
    self.title \o <<",">> \o VersionStr(self.version) \o <<" ", "(">> \o self.company \o <<")">>

\* __str__
Str(self) ==
    self.title \o <<",", " ">> \o VersionStr(self.version) \o <<" ", "(">> \o self.company \o <<")">>

-----------------------------------------------------------------------------
(* The texts parse_string is checked on, and the references of the round trip *)

RECURSIVE Flatten(_)
Flatten(pieces) ==
    IF Len(pieces) = 0 THEN <<>> ELSE pieces[1] \o Flatten(Tail(pieces))

\* what a title or a company is built of, and what a version text; T stands
\* for the letters, 1 for the digits
Pieces ==
    {<<"T">>, <<"1">>, <<"*">>, <<" ">>, <<",">>, <<"(">>, <<")">>, <<"\n">>,
     <<",", " ">>, <<" ", "(">>}

VersionPieces ==
    {<<"T">>, <<"1">>, <<".">>, <<"*">>, <<" ">>, <<",", " ">>, <<" ", "(">>, <<"\n">>}

MaxVersionPieces == 2

FieldTexts == {<<>>} \cup Pieces

VersionTexts(n) == {Flatten(ps) : ps \in ListsOf(VersionPieces, n)}

\* title, version text and company with each delimiter present or left out
FullNames(n) ==
    {t \o d1 \o v \o d2 \o c \o d3 :
        t \in FieldTexts, d1 \in {<<",", " ">>, <<>>}, v \in VersionTexts(n),
        d2 \in {<<" ", "(">>, <<>>}, c \in FieldTexts, d3 \in {<<")">>, <<>>}}

NameChars == {"T", ",", " ", "(", ")", "\n"}

MaxNameLen == 2

Names(n) == ListsOf(NameChars, n)

RoundRefs(n) ==
    {TcLibraryReference(t, v, c) : t \in Names(n), v \in Versions, c \in Names(n)}

-----------------------------------------------------------------------------
(* The state each specification leaves alone *)

CompareIdle == a = DefaultRef /\ b = DefaultRef /\ cmp = NoCmp

SelectIdle == references = <<>> /\ latest = NoLatest

ParseIdle == full_name = <<>> /\ parsed = NotParsed

RoundIdle == ref = DefaultRef /\ round = NotParsed

LibraryIdle ==
    /\ files = <<>> /\ order = <<>> /\ registry = {} /\ held = <<>>
    /\ last = [op |-> "none", path |-> "", outcome |-> "none", named |-> <<>>,
               libs |-> <<>>, fresh |-> TRUE, changed |-> FALSE]

-----------------------------------------------------------------------------
(* Comparing two references *)

InitCompare ==
    /\ a \in Refs /\ b \in Refs /\ cmp = NoCmp
    /\ SelectIdle /\ ParseIdle /\ RoundIdle /\ LibraryIdle

\* a == b
DoEq ==
    /\ cmp' = [op |-> "eq", val |-> Eq(a, b)]
    /\ UNCHANGED <<a, b, references, latest, full_name, parsed, ref, round,
                   files, order, registry, held, last>>

\* a > b
DoGt ==
    /\ cmp' = [op |-> "gt", val |-> Gt(a, b)]
    /\ UNCHANGED <<a, b, references, latest, full_name, parsed, ref, round,
                   files, order, registry, held, last>>

NextCompare == DoEq \/ DoGt

SpecCompare == InitCompare /\ [][NextCompare]_vars

-----------------------------------------------------------------------------
(* select_latest on a list of references *)

InitSelect ==
    /\ references \in ListsOf(SelectRefs, MaxRefs) /\ latest = NoLatest
    /\ CompareIdle /\ ParseIdle /\ RoundIdle /\ LibraryIdle

DoSelectLatest ==
    /\ latest' = SelectLatest(references)
    /\ UNCHANGED <<a, b, cmp, references, full_name, parsed, ref, round,
                   files, order, registry, held, last>>

NextSelect == DoSelectLatest

SpecSelect == InitSelect /\ [][NextSelect]_vars

-----------------------------------------------------------------------------
(* parse_string on a text *)

InitParse ==
    /\ full_name \in FullNames(MaxVersionPieces) /\ parsed = NotParsed
    /\ CompareIdle /\ SelectIdle /\ RoundIdle /\ LibraryIdle

DoParseString ==
    /\ parsed' = ParseString(full_name)
    /\ UNCHANGED <<a, b, cmp, references, latest, full_name, ref, round,
                   files, order, registry, held, last>>

NextParse == DoParseString

SpecParse == InitParse /\ [][NextParse]_vars

-----------------------------------------------------------------------------
(* from_string(str(ref)) *)

InitRound ==
    /\ ref \in RoundRefs(MaxNameLen) /\ round = NotParsed
    /\ CompareIdle /\ SelectIdle /\ ParseIdle /\ LibraryIdle

DoRoundTrip ==
    /\ round' = FromString(Str(ref))
    /\ UNCHANGED <<a, b, cmp, references, latest, full_name, parsed, ref,
                   files, order, registry, held, last>>

NextRound == DoRoundTrip

SpecRound == InitRound /\ [][NextRound]_vars

-----------------------------------------------------------------------------
(* The file system TcLibrary reads.  R is a directory with the directories *)
(* R/a and R/b in it, R/b/../a is another spelling of R/a, p.plcproj is a  *)
(* file, and nothing is at the path missing.  A directory's content is its *)
(* browsercache file: absent, or XML whose root has the Name attribute     *)
(* name (malformed stands for no XML, or no Name attribute).  A .plcproj   *)
(* file is malformed (no XML, or one of the three elements is not there)   *)
(* or XML with the texts of Title, ProjectVersion and Company.             *)

Dirs == {"R", "R/a", "R/b"}

ProjectFiles == {"p.plcproj"}

\* the paths TcLibrary is constructed from
Paths == Dirs \cup ProjectFiles \cup {"R/b/../a"}

\* Path.resolve()
Resolve(path) == IF path = "R/b/../a" THEN "R/a" ELSE path

Exists(path) == Resolve(path) \in Dirs \cup ProjectFiles

IsDir(path) == Resolve(path) \in Dirs

Content(state, name, title, version, company) ==
    [state |-> state, name |-> name, title |-> title, version |-> version,
     company |-> company]

CacheNames ==
    {<<"T", ",", " ", "1", ".", "0", " ", "(", "X", ")">>,
     <<"T", ",", " ", "*", " ", "(", "X", ")">>,
     <<"T", " ", "1", ".", "0">>}

DirContents ==
    {Content("absent", <<>>, <<>>, <<>>, <<>>)}
        \cup {Content("xml", n, <<>>, <<>>, <<>>) : n \in CacheNames}

ProjectContents ==
    {Content("malformed", <<>>, <<>>, <<>>, <<>>)}
        \cup {Content("xml", <<>>, <<"T">>, v, <<"X">>) : v \in {<<"1", ".", "0">>, <<"*">>}}

FileSystems ==
    {[path \in Dirs \cup ProjectFiles |->
         IF path = "R" THEN r ELSE IF path = "R/a" THEN ra
         ELSE IF path = "R/b" THEN rb ELSE q] :
        r \in DirContents, ra \in DirContents, rb \in DirContents, q \in ProjectContents}

\* the orders in which a directory scan may list the directories in R
Orders == {<<"R/a", "R/b">>, <<"R/b", "R/a">>}

-----------------------------------------------------------------------------
(* UniquePath and TcLibrary *)

\* UniquePath.__init__: check and insert in the process-wide registry, keyed by
\* the resolved path
UniquePathInit(reg, path) ==
    IF Resolve(path) \in reg
    THEN [outcome |-> "DuplicatePathError", registry |-> reg]
    ELSE [outcome |-> "ok", registry |-> reg \cup {Resolve(path)}]

Library(path, title, version, company) ==
    [path |-> path, title |-> title, version |-> version, company |-> company]

NoLibrary == Library("", <<>>, AnyVersion, <<>>)

\* how a call of TcLibrary(path) ends: the exception raised (or ok), the path the
\* exception's message names (<<path>>, or <<path, "browsercache">> for the file
\* in the folder), the registry after it, the instance made
Made(outcome, named, reg, lib) ==
    [outcome |-> outcome, named |-> named, registry |-> reg, lib |-> lib]

\* lines 39-53, for the browsercache file cache and p, parse_string of its Name
FromCache(reg, path, cache, p) ==
    IF cache.state = "absent" THEN Made("FileNotFoundError", <<path>>, reg, NoLibrary)
    ELSE IF cache.state = "malformed" \/ p.outcome # "ok"
    THEN Made("TcLibraryException", <<path, "browsercache">>, reg, NoLibrary)
    ELSE Made("ok", <<>>, reg, Library(path, p.title, p.version, p.company))

\* lines 36-53: a library repository folder
FromFolder(reg, path) ==
    FromCache(reg, path, files[Resolve(path)], ParseString(files[Resolve(path)].name))

\* lines 57-66, for the file f and v, version_module.parse of its ProjectVersion
FromElements(reg, path, f, v) ==
    IF f.state = "malformed" \/ ~v.ok
    THEN Made("TcLibraryException", <<path>>, reg, NoLibrary)
    ELSE Made("ok", <<>>, reg, Library(path, f.title, v.version, f.company))

\* lines 55-66: a .plcproj file; whatever fails becomes TcLibraryException
FromProject(reg, path) ==
    FromElements(reg, path, files[Resolve(path)], ParseVersion(files[Resolve(path)].version))

TcLibrary_NoUniquePath(reg, path) ==
    IF IsDir(path) THEN FromFolder(reg, path) ELSE FromProject(reg, path)

\* TcLibrary.__init__: UniquePath.__init__ first, then the files
TcLibrary(reg, path) ==
    LET u == UniquePathInit(reg, path)
    IN  IF u.outcome # "ok" THEN Made(u.outcome, <<path>>, u.registry, NoLibrary)
        ELSE IF IsDir(path) THEN FromFolder(u.registry, path)
        ELSE FromProject(u.registry, path)

\* the directories from root down, root first, as a scan walks them
Traversal(root) == IF root = "R" THEN <<"R">> \o order ELSE <<root>>

HasCache(dir) == files[Resolve(dir)].state # "absent"

RECURSIVE WithCache(_)
\* the directories of a list that hold a browsercache file
WithCache(dirs) ==
    IF Len(dirs) = 0 THEN <<>>
    ELSE IF HasCache(Head(dirs)) THEN <<Head(dirs)>> \o WithCache(Tail(dirs))
    ELSE WithCache(Tail(dirs))

Glob_ChildrenOnly(root) == WithCache(Tail(Traversal(root)))

\* the parents of tc_path.glob("**/browsercache"), for a directory tc_path
Glob(root) == WithCache(Traversal(root))

Scanned(outcome, named, reg, libs) ==
    [outcome |-> outcome, named |-> named, registry |-> reg, libs |-> libs]

RECURSIVE AppendLibraries(_, _, _, _)
\* lines 89-93: the loop, m being TcLibrary of the next path; an exception of
\* TcLibrary ends it
AppendLibraries(paths, m, reg, libs) ==
    IF Len(paths) = 0 THEN Scanned("ok", <<>>, reg, libs)
    ELSE IF m.outcome # "ok" THEN Scanned(m.outcome, m.named, m.registry, <<>>)
    ELSE IF Len(paths) = 1 THEN Scanned("ok", <<>>, m.registry, Append(libs, m.lib))
    ELSE AppendLibraries(Tail(paths), TcLibrary(m.registry, paths[2]), m.registry,
                         Append(libs, m.lib))

GetLibraryRepository(reg, tc_path) ==
    IF ~Exists(tc_path) THEN Scanned("FileNotFoundError", <<tc_path>>, reg, <<>>)
    ELSE IF Len(Glob(tc_path)) = 0 THEN Scanned("ok", <<>>, reg, <<>>)
    ELSE AppendLibraries(Glob(tc_path), TcLibrary(reg, Glob(tc_path)[1]), reg, <<>>)

-----------------------------------------------------------------------------
(* Constructing libraries and scanning a repository *)

MaxHeld == 4

\* the roots get_library_repository is called on: directories and a path where
\* nothing is
Roots == {"R", "R/a", "R/b", "R/b/../a", "missing"}

\* the last call: what was called on which path, how it ended, the path the
\* exception names, the instances returned; and of the registry as the call
\* found it: whether it held none of the folders the call went on to construct
\* from (fresh), and whether the call changed it (changed)
NoCall ==
    [op |-> "none", path |-> "", outcome |-> "none", named |-> <<>>, libs |-> <<>>,
     fresh |-> TRUE, changed |-> FALSE]

Call(op, path, outcome, named, libs, fresh, changed) ==
    [op |-> op, path |-> path, outcome |-> outcome, named |-> named, libs |-> libs,
     fresh |-> fresh, changed |-> changed]

NoneHeld == [path \in Paths |-> 0]

RECURSIVE Keep(_, _)
\* held, with the instances of libs counted in, each under its path
Keep(h, libs) ==
    IF Len(libs) = 0 THEN h
    ELSE Keep([h EXCEPT ![Head(libs).path] = @ + 1], Tail(libs))

RECURSIVE SumOver(_, _)
SumOver(h, S) ==
    IF S = {} THEN 0
    ELSE LET x == CHOOSE x \in S : TRUE IN h[x] + SumOver(h, S \ {x})

\* how many instances callers hold
HeldCount == SumOver(held, Paths)

InitLibrary ==
    /\ files \in FileSystems /\ order \in Orders
    /\ registry = {} /\ held = NoneHeld /\ last = NoCall
    /\ CompareIdle /\ SelectIdle /\ ParseIdle /\ RoundIdle

\* none of the folders get_library_repository(tc_path) constructs from is in reg
FreshFor(reg, tc_path) ==
    Exists(tc_path) =>
        \A i \in 1..Len(Glob(tc_path)) : Resolve(Glob(tc_path)[i]) \notin reg

\* a caller constructs TcLibrary(path) and keeps the instance
Construct(path) ==
    \E m \in {TcLibrary(registry, path)} :
        /\ HeldCount <= MaxHeld
        /\ registry' = m.registry
        /\ held' = IF m.outcome = "ok" THEN Keep(held, <<m.lib>>) ELSE held
        /\ last' = Call("construct", path, m.outcome, m.named,
                        IF m.outcome = "ok" THEN <<m.lib>> ELSE <<>>,
                        Resolve(path) \notin registry, m.registry # registry)
        /\ UNCHANGED <<a, b, cmp, references, latest, full_name, parsed, ref, round,
                       files, order>>

\* a caller calls get_library_repository(tc_path) and keeps the list
Scan(tc_path) ==
    \E r \in {GetLibraryRepository(registry, tc_path)} :
        /\ HeldCount <= MaxHeld
        /\ registry' = r.registry
        /\ held' = Keep(held, r.libs)
        /\ last' = Call("scan", tc_path, r.outcome, r.named, r.libs,
                        FreshFor(registry, tc_path), r.registry # registry)
        /\ UNCHANGED <<a, b, cmp, references, latest, full_name, parsed, ref, round,
                       files, order>>

NextLibrary ==
    \/ \E path \in Paths : Construct(path)
    \/ \E tc_path \in Roots : Scan(tc_path)

SpecLibrary == InitLibrary /\ [][NextLibrary]_vars

-----------------------------------------------------------------------------
(* What the claims speak of, stated apart from the code's own operators *)

\* c and d are one letter, whatever the case
SameLetter(c, d) ==
    \/ c = d
    \/ \E i \in 1..Len(UpperLetters) : {c, d} = {UpperLetters[i], LowerLetters[i]}

MatchIgnoringCase(s, t) ==
    /\ Len(s) = Len(t)
    /\ \A i \in 1..Len(s) : SameLetter(s[i], t[i])

\* the i-th number of a release, 0 beyond its end
Component(rel, i) == IF i <= Len(rel) THEN rel[i] ELSE 0

Longest(v, w) == IF Len(v.release) >= Len(w.release) THEN Len(v.release) ELSE Len(w.release)

NumericallyEqual(v, w) ==
    /\ ~v.any /\ ~w.any
    /\ \A i \in 1..Longest(v, w) : Component(v.release, i) = Component(w.release, i)

NumericallyGreater(v, w) ==
    /\ ~v.any /\ ~w.any
    /\ \E i \in 1..Longest(v, w) :
        /\ Component(v.release, i) > Component(w.release, i)
        /\ \A j \in 1..(i - 1) : Component(v.release, j) = Component(w.release, j)

VersionsEqual(v, w) == (v.any /\ w.any) \/ NumericallyEqual(v, w)

-----------------------------------------------------------------------------
(* Claims on the comparisons (SpecCompare) *)

\* C1: a == b is true if and only if the titles match case-insensitively, the
\* companies match case-insensitively, and the versions are equal or at least
\* one of the two is the wildcard.
C1_EqualityIff ==
    cmp.op = "eq" =>
        /\ cmp.val \in {"True", "False"}
        /\ cmp.val = "True" <=>
            /\ MatchIgnoringCase(a.title, b.title)
            /\ MatchIgnoringCase(a.company, b.company)
            /\ \/ VersionsEqual(a.version, b.version)
               \/ a.version.any
               \/ b.version.any

\* a numeric version on the left equals a wildcard on the right, the titles
\* differing in case only
C1_Witness ==
    /\ cmp.op = "eq" /\ cmp.val = "True"
    /\ ~a.version.any /\ b.version.any
    /\ a.title # b.title

\* C2: for a and b of identical title and company, a > b yields a boolean, which
\* is true if and only if a's version is numerically greater than b's or a's
\* version is the wildcard.
C2_GreaterThanIff ==
    (cmp.op = "gt" /\ a.title = b.title /\ a.company = b.company) =>
        /\ cmp.val \in {"True", "False"}
        /\ cmp.val = "True" <=>
            \/ NumericallyGreater(a.version, b.version)
            \/ a.version.any

\* a numeric version on the left was compared with a wildcard on the right
C2_Witness ==
    /\ cmp.op = "gt" /\ a.title = b.title /\ a.company = b.company
    /\ ~a.version.any /\ b.version.any

-----------------------------------------------------------------------------
(* Claims on select_latest (SpecSelect) *)

SameFamily(refs) ==
    \A i, j \in 1..Len(refs) :
        refs[i].title = refs[j].title /\ refs[i].company = refs[j].company

\* C3: for a list whose items share title and company, select_latest returns
\* none when the list is empty and otherwise an item of the list whose version is
\* the maximum under numeric ordering: the single item of a singleton list and,
\* among several items tied at the maximum, the last in the original order.
C3_LatestOfFamily ==
    (latest.outcome # "none" /\ SameFamily(references)) =>
        IF Len(references) = 0 THEN latest.outcome = "None"
        ELSE /\ latest.outcome = "ok"
             /\ latest.index \in 1..Len(references)
             /\ latest.value = references[latest.index]
             /\ \A j \in 1..Len(references) :
                    /\ ~NumericallyGreater(references[j].version, latest.value.version)
                    /\ VersionsEqual(references[j].version, latest.value.version)
                           => j <= latest.index

\* select_latest was applied to a family of two or more that holds a wildcard
\* and a numeric version
C3_Witness ==
    /\ latest.outcome # "none" /\ SameFamily(references)
    /\ \E i, j \in 1..Len(references) :
        references[i].version.any /\ ~references[j].version.any

\* C4: select_latest fails with the mismatch error (TcLibraryException) whenever
\* two items of the list differ in title or in company, compared exactly, and
\* never when all items have the same title and company.
C4_MismatchIff ==
    latest.outcome # "none" =>
        (latest.outcome = "TcLibraryException" <=> ~SameFamily(references))

\* the error was raised for a list whose third item differs from the others only
\* in the case of its title
C4_Witness ==
    /\ latest.outcome = "TcLibraryException"
    /\ Len(references) = 3
    /\ references[1] = references[2]
    /\ references[3].title # references[1].title
    /\ Lower(references[3].title) = Lower(references[1].title)
    /\ references[3].company = references[1].company

-----------------------------------------------------------------------------
(* Claims on parse_string (SpecParse) *)

NoLineBreak(s) == \A i \in 1..Len(s) : s[i] # "\n"

\* where a title may end: before a ", ", with no line break in it
TitleEnds(s) ==
    {i \in 0..Len(s) : OccursAt(s, <<",", " ">>, i + 1) /\ NoLineBreak(Slice(s, 1, i))}

\* where the version text after a title ending at i may end: before a " ("
VersionEnds(s, i) ==
    {j \in (i + 2)..Len(s) :
        OccursAt(s, <<" ", "(">>, j + 1) /\ NoLineBreak(Slice(s, i + 3, j))}

\* where the company after a version text ending at j may end: before a ")"
CompanyEnds(s, j) ==
    {k \in (j + 2)..Len(s) :
        OccursAt(s, <<")">>, k + 1) /\ NoLineBreak(Slice(s, j + 3, k))}

\* the ways s reads as <title>, <version> (<company>) followed by anything: the
\* last positions <<i, j, k>> of title, version text and company
Readings(s) ==
    UNION {UNION {{<<i, j, k>> : k \in CompanyEnds(s, j)} : j \in VersionEnds(s, i)} :
           i \in TitleEnds(s)}

MatchesPattern(s) == Readings(s) # {}

Later(r, q) ==
    \/ r[1] > q[1]
    \/ r[1] = q[1] /\ r[2] > q[2]
    \/ r[1] = q[1] /\ r[2] = q[2] /\ r[3] >= q[3]

\* the reading a greedy match settles on: the longest title, then the longest
\* version text, then the longest company
GreedyReading(s) ==
    LET R == Readings(s) IN CHOOSE r \in R : \A q \in R : Later(r, q)

TitleOf(s, r) == Slice(s, 1, r[1])

VersionTextOf(s, r) == Slice(s, r[1] + 3, r[2])

CompanyOf(s, r) == Slice(s, r[2] + 3, r[3])

\* dotted numbers, white space around them allowed
IsNumericText(t) ==
    \E i, j \in 1..Len(t) :
        /\ i <= j
        /\ \A k \in 1..Len(t) : (k < i \/ k > j) => t[k] = " "
        /\ IsDigit(t[i]) /\ IsDigit(t[j])
        /\ \A k \in i..j : IsDigit(t[k]) \/ t[k] = "."
        /\ \A k \in i..(j - 1) : ~(t[k] = "." /\ t[k + 1] = ".")

DotsIn(t) == Cardinality({k \in 1..Len(t) : t[k] = "."})

\* C8: parse_string returns a triple or fails with the format error
\* (TcLibraryException) and nothing else; it fails exactly when the text does not
\* match the pattern or the version text is not "*" and is no numeric version;
\* for the version text "*" the version returned is the wildcard, otherwise the
\* structured numeric version.
C8_ParseOutcome ==
    parsed.outcome # "none" =>
        /\ parsed.outcome \in {"ok", "TcLibraryException"}
        /\ ~MatchesPattern(full_name) => parsed.outcome = "TcLibraryException"
        /\ MatchesPattern(full_name) =>
            LET r == GreedyReading(full_name)
                text == VersionTextOf(full_name, r)
            IN  /\ parsed.outcome = "TcLibraryException" <=>
                       (text # <<"*">> /\ ~IsNumericText(text))
                /\ parsed.outcome = "ok" =>
                    /\ parsed.title = TitleOf(full_name, r)
                    /\ parsed.company = CompanyOf(full_name, r)
                    /\ parsed.version.any <=> text = <<"*">>
                    /\ ~parsed.version.any =>
                        /\ Len(parsed.version.release) = DotsIn(text) + 1
                        /\ parsed.version = ParseVersion(text).version

\* a text with more than one reading was parsed to a wildcard version
C8_Witness ==
    /\ parsed.outcome = "ok" /\ parsed.version.any
    /\ Cardinality(Readings(full_name)) > 1
    /\ Len(parsed.title) > 0

-----------------------------------------------------------------------------
(* Claims on the round trip (SpecRound) *)

HasCommaSpace(s) == \E i \in 1..Len(s) : OccursAt(s, <<",", " ">>, i)

HasParenthesis(s) == \E i \in 1..Len(s) : s[i] \in {"(", ")"}

Plain(s) == ~HasCommaSpace(s) /\ ~HasParenthesis(s)

RoundTrips ==
    /\ round.outcome = "ok"
    /\ round.title = ref.title
    /\ round.version = ref.version
    /\ round.company = ref.company
    /\ Eq(TcLibraryReference(round.title, round.version, round.company), ref) = "True"

\* C10 as stated: for a reference whose title and company hold no comma-space
\* and no parenthesis, from_string(str(ref)) succeeds and gives a reference equal
\* to ref, with the same title, version and company.
C10_RoundTripAsStated ==
    (round.outcome # "none" /\ Plain(ref.title) /\ Plain(ref.company)) => RoundTrips

\* C10 amended: the same, for a title and company that hold no line break
\* either.
C10_RoundTrip ==
    (/\ round.outcome # "none"
     /\ Plain(ref.title) /\ Plain(ref.company)
     /\ NoLineBreak(ref.title) /\ NoLineBreak(ref.company)) => RoundTrips

\* a reference with a comma at the end of its title and a space at the start of
\* its company, of a numeric version with a trailing zero, made the round trip
C10_Witness ==
    /\ round.outcome = "ok"
    /\ Plain(ref.title) /\ Plain(ref.company)
    /\ NoLineBreak(ref.title) /\ NoLineBreak(ref.company)
    /\ Len(ref.title) > 0 /\ ref.title[Len(ref.title)] = ","
    /\ Len(ref.company) > 0 /\ ref.company[1] = " "
    /\ ref.version = NumVersion(<<1, 0>>)

-----------------------------------------------------------------------------
(* Claims on TcLibrary and get_library_repository (SpecLibrary) *)

\* how many instances callers hold whose path resolves to r
HeldAt(r) == SumOver(held, {path \in Paths : Resolve(path) = r})

FailedConstruct ==
    last.op = "construct" /\ last.outcome \in {"FileNotFoundError", "TcLibraryException"}

\* C5: no two live instances are bound to the same resolved path; constructing
\* a library for a path already bound to a live instance fails with
\* DuplicatePathError and makes no second instance.
C5_UniquePath ==
    /\ \A path \in Paths : HeldAt(Resolve(path)) <= 1
    /\ (last.op = "construct" /\ HeldAt(Resolve(last.path)) - Len(last.libs) >= 1) =>
           (last.outcome = "DuplicatePathError" /\ last.libs = <<>>)

\* the folder R/a, held by a caller, was constructed again under its other
\* spelling and the call was refused
C5_Witness ==
    /\ last.op = "construct" /\ last.path = "R/b/../a"
    /\ last.outcome = "DuplicatePathError"
    /\ held["R/a"] = 1 /\ held["R/b/../a"] = 0

\* C6: a construction that fails with FileNotFoundError or with the invalid
\* library error (TcLibraryException) leaves the registry as it was before the
\* call, so that no binding for the path remains.
C6_FailureLeavesRegistry ==
    FailedConstruct => (~last.changed /\ Resolve(last.path) \notin registry)

\* a construction failed for want of a browsercache file
C6_Witness ==
    /\ FailedConstruct /\ last.outcome = "FileNotFoundError"
    /\ HeldAt(Resolve(last.path)) = 0

\* C9: constructing a library from a directory that holds no browsercache file
\* raises FileNotFoundError naming the directory, not wrapped, and no library is
\* constructed.
C9_MissingBrowsercache ==
    (/\ last.op = "construct"
     /\ IsDir(last.path)
     /\ files[Resolve(last.path)].state = "absent") =>
        /\ last.outcome = "FileNotFoundError"
        /\ last.named = <<last.path>>
        /\ last.libs = <<>>
        /\ HeldAt(Resolve(last.path)) = 0

\* a directory without a browsercache file was constructed from with its path
\* already in the registry
C9_Witness ==
    /\ last.op = "construct"
    /\ IsDir(last.path)
    /\ files[Resolve(last.path)].state = "absent"
    /\ ~last.fresh

\* where in the traversal from root the directory dir comes
Position(root, dir) ==
    CHOOSE i \in 1..Len(Traversal(root)) : Traversal(root)[i] = dir

\* the directories from root down that hold a browsercache file
CacheFolders(root) ==
    {Traversal(root)[i] : i \in {i \in 1..Len(Traversal(root)) : HasCache(Traversal(root)[i])}}

\* the library of folder dir, whose browsercache file parses
IsLibraryOf(lib, dir) ==
    /\ ParseString(files[Resolve(dir)].name).outcome = "ok"
    /\ lib.path = dir
    /\ lib.title = ParseString(files[Resolve(dir)].name).title
    /\ lib.version = ParseString(files[Resolve(dir)].name).version
    /\ lib.company = ParseString(files[Resolve(dir)].name).company

\* the call returned one library for each directory under its root that holds a
\* browsercache file, in traversal order
ScanReturnsAll ==
    /\ last.outcome = "ok"
    /\ \A dir \in CacheFolders(last.path) :
           Cardinality({i \in 1..Len(last.libs) : last.libs[i].path = dir}) = 1
    /\ \A i \in 1..Len(last.libs) :
           /\ last.libs[i].path \in CacheFolders(last.path)
           /\ IsLibraryOf(last.libs[i], last.libs[i].path)
           /\ held[last.libs[i].path] >= 1
    /\ \A i, j \in 1..Len(last.libs) :
           i < j => Position(last.path, last.libs[i].path) < Position(last.path, last.libs[j].path)

AllParse(root) ==
    \A dir \in CacheFolders(root) : ParseString(files[Resolve(dir)].name).outcome = "ok"

=============================================================================
